---- MODULE Spec2Model ----
(***************************************************************************)
(* Double Q-Learning (src/Algorithms/double_q_learning.py): the epsilon-   *)
(* greedy behaviour policy over two value tables and the training loop     *)
(* double_q_learning, as a state machine.  Action values are floats in the *)
(* source; here they are exact rationals <<numerator, denominator>>, which *)
(* agree with the floats for alpha = 1/2, discount_factor = 1 and small    *)
(* integer rewards (all values are dyadic with few bits).                  *)
(***************************************************************************)
EXTENDS Integers, Sequences, FiniteSets, TLC

VARIABLES
    pc,               \* position of double_q_learning
    env,              \* which environment the run is given
    seed,             \* the tables <<Q_a, Q_b>> as the caller passed them
    num_episodes,     \* argument num_episodes
    epsilon,          \* policy.epsilon
    Q_a, Q_b,         \* the two value tables (shared by loop and policy)
    i_episode,        \* number of episodes completed so far
    i, R,             \* per-episode step count and return
    state,            \* local state
    draw,             \* np.random.uniform(0, 1) of the last sample_action
    action,           \* local action
    next_state, reward, done,   \* the last transition
    coin,             \* np.random.randint(0, 2) of the last update
    max_action,       \* local max_action
    stats,            \* list of (i, R)
    Q,                \* the merged table
    episode_lengths, episode_returns,   \* zip(*stats)
    envLog,           \* environment side: per episode <<step calls, sum of rewards>>
    visited           \* environment side: states returned by reset() or step()

vars == <<pc, env, seed, num_episodes, epsilon, Q_a, Q_b, i_episode, i, R, state, draw,
          action, next_state, reward, done, coin, max_action, stats, Q,
          episode_lengths, episode_returns, envLog, visited>>

-----------------------------------------------------------------------------
(* Bounds of the model *)

NumStates == 3
MaxEpisodes == 2
MaxSteps == 2

(* env.action_space.n *)
num_actions == 2

-----------------------------------------------------------------------------
(* Exact rational arithmetic standing for the float arithmetic *)

Abs(x) == IF x < 0 THEN 0 - x ELSE x

RECURSIVE GCD(_, _)
GCD(a, b) == IF b = 0 THEN a ELSE GCD(b, a % b)

Norm(n, d) == LET g == GCD(Abs(n), d) IN <<n \div g, d \div g>>

FromInt(n) == <<n, 1>>
RAdd(x, y) == Norm(x[1] * y[2] + y[1] * x[2], x[2] * y[2])
RSub(x, y) == Norm(x[1] * y[2] - y[1] * x[2], x[2] * y[2])
RMul(x, y) == Norm(x[1] * y[1], x[2] * y[2])
RLeq(x, y) == x[1] * y[2] <= y[1] * x[2]
RLess(x, y) == x[1] * y[2] < y[1] * x[2]

Actions == 0 .. (num_actions - 1)

(* np.zeros(num_actions) *)
zeros == [a \in Actions |-> FromInt(0)]

(* element-wise + of two arrays *)
VecAdd(u, v) == [a \in DOMAIN u |-> RAdd(u[a], v[a])]

(* np.argmax: the first index holding the maximum *)
argmax(v) ==
    CHOOSE a \in DOMAIN v :
        /\ \A b \in DOMAIN v : RLeq(v[b], v[a])
        /\ \A b \in DOMAIN v : b < a => RLess(v[b], v[a])

(* dict.setdefault(k, d): the dict afterwards *)
setdefault(T, k, d) ==
    IF k \in DOMAIN T THEN T
    ELSE [x \in DOMAIN T \cup {k} |-> IF x = k THEN d ELSE T[x]]

(* T[k] = v *)
setitem(T, k, v) == [x \in DOMAIN T \cup {k} |-> IF x = k THEN v ELSE T[x]]

EmptyTable == [x \in {} |-> zeros]

(* defaults of the signature: alpha=0.5, discount_factor=1.0 *)
alpha == <<1, 2>>
discount_factor == <<1, 1>>

-----------------------------------------------------------------------------
(* The environment collaborator *)

States == 0 .. (NumStates - 1)
Terminal == NumStates - 1

(* env.reset() *)
env_reset(e) == IF e = "bandit" THEN {0} ELSE States \ {Terminal}

(* env.step(action) from state s after n earlier steps of the episode:     *)
(* the possible (next_state, reward, done).  "bandit": from state 0 action *)
(* 0 pays 1 and action 1 pays -1, both terminate in state 1.  "chain":     *)
(* action 0 stays for reward 0, action 1 moves one state up for reward 1;  *)
(* done on entering Terminal and, as a time limit, at step MaxSteps.       *)
env_step(e, s, a, n) ==
    IF e = "bandit"
    THEN {<<1, IF a = 0 THEN 1 ELSE 0 - 1, TRUE>>}
    ELSE LET ns == IF a = 0 THEN s ELSE s + 1
         IN  {<<ns, a, ns = Terminal \/ n + 1 >= MaxSteps>>}

(* tables the caller may pass in: <<Q_a, Q_b>> *)
Vec(x, y) == [a \in Actions |-> IF a = 0 THEN FromInt(x) ELSE FromInt(y)]
Seeds ==
    { <<EmptyTable, EmptyTable>>,
      <<setitem(EmptyTable, 0, Vec(1, 0 - 1)), setitem(EmptyTable, 0, Vec(1, 0 - 1))>>,
      <<setitem(setitem(EmptyTable, 0, Vec(1, 0 - 1)), 1, Vec(1, 0)),
        setitem(EmptyTable, 0, Vec(1, 0 - 1))>>,
      <<setitem(EmptyTable, Terminal, Vec(1, 0)), setitem(EmptyTable, Terminal, Vec(0, 1))>> }

Epsilons == {<<0, 1>>, <<1, 2>>}
(* values of np.random.uniform(0, 1), which lies in [0, 1) *)
Draws == {<<0, 1>>, <<1, 2>>, <<3, 4>>}

-----------------------------------------------------------------------------

Init ==
    /\ pc = "episode"
    /\ env \in {"chain", "bandit"}
    /\ num_episodes \in 1 .. MaxEpisodes
    /\ epsilon \in Epsilons
    /\ seed \in Seeds
    /\ Q_a = seed[1]
    /\ Q_b = seed[2]
    /\ i_episode = 0
    /\ stats = <<>>
    /\ envLog = <<>>
    /\ visited = {}
    \* locals not yet bound, results not yet built
    /\ i = 0 /\ R = 0
    /\ state = 0 - 1 /\ action = 0 - 1 /\ next_state = 0 - 1 /\ max_action = 0 - 1
    /\ reward = 0 /\ done = FALSE /\ coin = 0 /\ draw = <<0, 1>>
    /\ Q = EmptyTable /\ episode_lengths = <<>> /\ episode_returns = <<>>

(* a start state that is only ensured to exist, not overwritten *)
reset_entry_keep(T, s) == setdefault(T, s, zeros)

(* lines 85-86: T[state] = np.zeros(num_actions) *)
reset_entry(T, s) == setitem(T, s, zeros)

(* lines 80-86: next episode, env.reset(), both entries of the start state zeroed *)
Reset ==
    /\ pc = "episode"
    /\ i_episode < num_episodes
    /\ \E s \in env_reset(env) :
        /\ state' = s
        /\ Q_a' = reset_entry(Q_a, s)
        /\ Q_b' = reset_entry(Q_b, s)
        /\ visited' = visited \cup {s}
    /\ i' = 0
    /\ R' = 0
    /\ envLog' = Append(envLog, <<0, 0>>)
    /\ pc' = "sample"
    /\ UNCHANGED <<env, seed, num_episodes, epsilon, i_episode, draw, action, next_state,
                   reward, done, coin, max_action, stats, Q, episode_lengths,
                   episode_returns>>

(* lines 32-39: the actions sample_action may return for draw d *)
sample_action(Qa, Qb, obs, d) ==
    LET action_values == VecAdd(Qa[obs], Qb[obs])
    IN  IF RLeq(d, epsilon) THEN DOMAIN action_values ELSE {argmax(action_values)}

(* line 90 *)
SampleAction ==
    /\ pc = "sample"
    /\ IF state \in DOMAIN Q_a /\ state \in DOMAIN Q_b
       THEN \E d \in Draws :
               /\ draw' = d
               /\ \E a \in sample_action(Q_a, Q_b, state, d) : action' = a
               /\ pc' = "step"
       ELSE /\ pc' = "KeyError_policy"
            /\ UNCHANGED <<draw, action>>
    /\ UNCHANGED <<env, seed, num_episodes, epsilon, Q_a, Q_b, i_episode, i, R, state,
                   next_state, reward, done, coin, max_action, stats, Q,
                   episode_lengths, episode_returns, envLog, visited>>

(* lines 91-92 *)
EnvStep ==
    /\ pc = "step"
    /\ \E tr \in env_step(env, state, action, i) :
        /\ next_state' = tr[1]
        /\ reward' = tr[2]
        /\ done' = tr[3]
        /\ visited' = visited \cup {tr[1]}
        /\ envLog' = [envLog EXCEPT ![Len(envLog)] = <<@[1] + 1, @[2] + tr[2]>>]
    /\ pc' = "update"
    /\ UNCHANGED <<env, seed, num_episodes, epsilon, Q_a, Q_b, i_episode, i, R, state, draw,
                   action, coin, max_action, stats, Q, episode_lengths, episode_returns>>

(* lines 95-97 (and 99-101 with the tables exchanged): Sel is the table    *)
(* the branch names first, Oth the other one.  The result is               *)
(* <<max_action, Sel afterwards, Oth afterwards>>.                         *)
(* a target that drops the bootstrap term on a terminal transition *)
td_target_masked(r, boot) ==
    IF done THEN FromInt(r) ELSE RAdd(FromInt(r), RMul(discount_factor, boot))

td_target(r, boot) == RAdd(FromInt(r), RMul(discount_factor, boot))
td_update(old, r, boot) == RAdd(old, RMul(alpha, RSub(td_target(r, boot), old)))

(* max_action picked from the table that is not written *)
update_branch_select_other(Sel, Oth, s, a, r, ns) ==
    LET Sel1 == setdefault(Sel, ns, zeros)
        Oth1 == setdefault(Oth, ns, zeros)
        m    == argmax(Oth1[ns])
        new  == td_update(Sel1[s][a], r, Oth1[ns][m])
    IN  <<m, [Sel1 EXCEPT ![s][a] = new], Oth1>>

(* the other table read with a default, without inserting the key *)
update_branch_get_other(Sel, Oth, s, a, r, ns) ==
    LET Sel1 == setdefault(Sel, ns, zeros)
        m    == argmax(Sel1[ns])
        boot == IF ns \in DOMAIN Oth THEN Oth[ns][m] ELSE zeros[m]
        new  == td_update(Sel1[s][a], r, boot)
    IN  <<m, [Sel1 EXCEPT ![s][a] = new], Oth>>

(* the new value stored under next_state instead of state *)
update_branch_write_next(Sel, Oth, s, a, r, ns) ==
    LET Sel1 == setdefault(Sel, ns, zeros)
        m    == argmax(Sel1[ns])
        Oth1 == setdefault(Oth, ns, zeros)
        new  == td_update(Sel1[s][a], r, Oth1[ns][m])
    IN  <<m, [Sel1 EXCEPT ![ns][a] = new], Oth1>>

update_branch(Sel, Oth, s, a, r, ns) ==
    LET Sel1 == setdefault(Sel, ns, zeros)
        m    == argmax(Sel1[ns])
        Oth1 == setdefault(Oth, ns, zeros)
        new  == td_update(Sel1[s][a], r, Oth1[ns][m])
    IN  <<m, [Sel1 EXCEPT ![s][a] = new], Oth1>>

(* lines 94-101 for coin c: the table named first is Q_a on 1, Q_b on 0.    *)
(* Q_x[state] of a missing state raises KeyError once next_state is        *)
(* ensured in Q_x and max_action is bound.                                 *)
update_result(c) ==
    LET Sel  == IF c = 1 THEN Q_a ELSE Q_b
        Oth  == IF c = 1 THEN Q_b ELSE Q_a
        Sel1 == setdefault(Sel, next_state, zeros)
        ok   == state \in DOMAIN Sel1
        u    == IF ok THEN update_branch(Sel, Oth, state, action, reward, next_state)
                ELSE <<argmax(Sel1[next_state]), Sel1, Oth>>
    IN  [ok |-> ok, max_action |-> u[1],
         Q_a |-> IF c = 1 THEN u[2] ELSE u[3],
         Q_b |-> IF c = 1 THEN u[3] ELSE u[2]]

(* lines 94-101 *)
Update ==
    /\ pc = "update"
    /\ \E c \in {0, 1} :
        /\ coin' = c
        /\ max_action' = update_result(c).max_action
        /\ Q_a' = update_result(c).Q_a
        /\ Q_b' = update_result(c).Q_b
        /\ pc' = IF update_result(c).ok THEN "advance" ELSE "KeyError_update"
    /\ UNCHANGED <<env, seed, num_episodes, epsilon, i_episode, i, R, state, draw, action,
                   next_state, reward, done, stats, Q, episode_lengths,
                   episode_returns, envLog, visited>>

(* the loop left on done before the statistics are accumulated *)
Advance_break_first ==
    /\ pc = "advance"
    /\ state' = next_state
    /\ R' = IF done THEN R ELSE R + reward
    /\ i' = IF done THEN i ELSE i + 1
    /\ pc' = IF done THEN "append" ELSE "sample"
    /\ UNCHANGED <<env, seed, num_episodes, epsilon, Q_a, Q_b, i_episode, draw, action,
                   next_state, reward, done, coin, max_action, stats, Q,
                   episode_lengths, episode_returns, envLog, visited>>

(* lines 103-109 *)
Advance ==
    /\ pc = "advance"
    /\ state' = next_state
    /\ R' = R + reward
    /\ i' = i + 1
    /\ pc' = IF done THEN "append" ELSE "sample"
    /\ UNCHANGED <<env, seed, num_episodes, epsilon, Q_a, Q_b, i_episode, draw, action,
                   next_state, reward, done, coin, max_action, stats, Q,
                   episode_lengths, episode_returns, envLog, visited>>

(* line 111 *)
EndEpisode ==
    /\ pc = "append"
    /\ stats' = Append(stats, <<i, R>>)
    /\ i_episode' = i_episode + 1
    /\ pc' = "episode"
    /\ UNCHANGED <<env, seed, num_episodes, epsilon, Q_a, Q_b, i, R, state, draw, action,
                   next_state, reward, done, coin, max_action, Q, episode_lengths,
                   episode_returns, envLog, visited>>

(* a merge that copies Q_a and forgets to add Q_b *)
merge_first_only(Qa, Qb) == [key \in DOMAIN Qa |-> Qa[key]]

(* lines 114-116: the merged table *)
merge(Qa, Qb) == [key \in DOMAIN Qa |-> VecAdd(Qa[key], Qb[key])]

(* lines 112-117 *)
Merge ==
    /\ pc = "episode"
    /\ i_episode = num_episodes
    /\ IF DOMAIN Q_a \subseteq DOMAIN Q_b
       THEN /\ Q' = merge(Q_a, Q_b)
            /\ episode_lengths' = [k \in 1 .. Len(stats) |-> stats[k][1]]
            /\ episode_returns' = [k \in 1 .. Len(stats) |-> stats[k][2]]
            /\ pc' = "done"
       ELSE /\ episode_lengths' = [k \in 1 .. Len(stats) |-> stats[k][1]]
            /\ episode_returns' = [k \in 1 .. Len(stats) |-> stats[k][2]]
            /\ Q' = Q
            /\ pc' = "KeyError_merge"
    /\ UNCHANGED <<env, seed, num_episodes, epsilon, Q_a, Q_b, i_episode, i, R, state, draw,
                   action, next_state, reward, done, coin, max_action, stats, envLog,
                   visited>>

Next ==
    \/ Reset
    \/ SampleAction
    \/ EnvStep
    \/ Update
    \/ Advance
    \/ EndEpisode
    \/ Merge

Spec == Init /\ [][Next]_vars

-----------------------------------------------------------------------------
(* Properties of the training loop *)

(* the two tables of an update step once next_state is ensured in them *)
EnsuredA == setdefault(Q_a, next_state, zeros)
EnsuredB == setdefault(Q_b, next_state, zeros)

(* a step of Update that performs the update *)
Updating == pc = "update" /\ pc' = "advance"

(* C1, as stated: in every update step max_action is the argmax of the     *)
(* next_state vector of the table that is NOT written.                     *)
C1_SelectsFromOther ==
    [][Updating =>
        max_action' = argmax(IF coin' = 1 THEN EnsuredB[next_state]
                                          ELSE EnsuredA[next_state])]_vars

(* C1, amended: in every update step max_action is the argmax of the       *)
(* next_state vector of the table that IS written; the other table gains   *)
(* at most the lazily inserted next_state entry and is otherwise only      *)
(* read, and the written table changes in no entry but [state][action].    *)
C1_SelectsFromWritten ==
    [][Updating =>
        IF coin' = 1
        THEN /\ max_action' = argmax(EnsuredA[next_state])
             /\ Q_b' = EnsuredB
             /\ Q_a' = [EnsuredA EXCEPT ![state][action] = Q_a'[state][action]]
        ELSE /\ max_action' = argmax(EnsuredB[next_state])
             /\ Q_a' = EnsuredA
             /\ Q_b' = [EnsuredB EXCEPT ![state][action] = Q_b'[state][action]]]_vars

(* an update on heads whose two tables disagree on the best next action *)
C1_Witness ==
    /\ pc = "advance" /\ coin = 1 /\ next_state # state
    /\ argmax(Q_a[next_state]) # argmax(Q_b[next_state])
    /\ max_action = argmax(Q_a[next_state])

(* C2: when the merge runs, Q_a and Q_b have the same key set, so the      *)
(* merge never fails on a key missing from Q_b, whatever the seed tables.  *)
C2_KeysSynchronised ==
    /\ (pc = "episode" /\ i_episode = num_episodes) => DOMAIN Q_a = DOMAIN Q_b
    /\ pc # "KeyError_merge"

(* C3: when the first action of an episode is sampled, the start state has *)
(* the zero vector in both tables; an update step leaves every existing    *)
(* entry as it was, except the one entry [state][action] it writes.        *)
C3_StartZeroedOthersKept ==
    [][/\ (pc = "sample" /\ i = 0 /\ pc' = "step") =>
            Q_a[state] = zeros /\ Q_b[state] = zeros
       /\ Updating =>
            \A k \in States, a \in Actions :
                /\ (k \in DOMAIN Q_a /\ Q_a'[k][a] # Q_a[k][a]) =>
                        (coin' = 1 /\ k = state /\ a = action)
                /\ (k \in DOMAIN Q_b /\ Q_b'[k][a] # Q_b[k][a]) =>
                        (coin' = 0 /\ k = state /\ a = action)]_vars

(* first step of the first episode: the seeded start state was zeroed      *)
(* (its unwritten entry lost the seeded value), the seeded next_state kept *)
(* its vector.                                                             *)
C3_Witness ==
    /\ pc = "advance" /\ i = 0 /\ i_episode = 0 /\ next_state # state
    /\ state \in DOMAIN seed[1]
    /\ \E a \in Actions :
        a # action /\ seed[1][state][a] # FromInt(0) /\ Q_a[state][a] = FromInt(0)
    /\ next_state \in DOMAIN seed[1]
    /\ seed[1][next_state] # zeros
    /\ Q_a[next_state] = seed[1][next_state]

(* C4: on return both statistics sequences have num_episodes entries, and  *)
(* entry k is the number of env.step calls of episode k and the sum of the *)
(* rewards they returned, the done step included.                          *)
C4_StatsMatchEnv ==
    pc = "done" =>
        /\ Len(episode_lengths) = num_episodes
        /\ Len(episode_returns) = num_episodes
        /\ Len(envLog) = num_episodes
        /\ \A k \in 1 .. num_episodes :
            /\ episode_lengths[k] = envLog[k][1]
            /\ episode_returns[k] = envLog[k][2]

(* two episodes of different length and return *)
C4_Witness ==
    /\ pc = "done"
    /\ episode_lengths = <<2, 1>>
    /\ episode_returns = <<0, 1>>

(* C5: on return every visited state is a key of Q, and Q[s][a] is the sum *)
(* of the final Q_a[s][a] and Q_b[s][a].                                   *)
C5_MergedIsSum ==
    pc = "done" =>
        \A s \in visited :
            /\ s \in DOMAIN Q
            /\ \A a \in Actions : Q[s][a] = RAdd(Q_a[s][a], Q_b[s][a])

(* a return with a visited state learned in both tables *)
C5_Witness ==
    /\ pc = "done"
    /\ \E s \in visited : Q_a[s] # zeros /\ Q_b[s] # zeros

(* C6: in the bandit environment with epsilon = 0 and both tables seeded   *)
(* with [1, -1] for state 0, for every draw and coin the policy picks      *)
(* action 0 and one episode returns lengths [1] and returns [1].           *)
C6Seed == <<setitem(EmptyTable, 0, Vec(1, 0 - 1)), setitem(EmptyTable, 0, Vec(1, 0 - 1))>>
C6_GreedyBandit ==
    (env = "bandit" /\ epsilon = FromInt(0) /\ seed = C6Seed /\ num_episodes = 1) =>
        /\ pc \in {"step", "update", "advance", "append", "done"} => action = 0
        /\ pc = "done" => episode_returns = <<1>> /\ episode_lengths = <<1>>

(* C7: on heads max_action is the lowest-index maximum of Q_a[next_state]  *)
(* and the new Q_a[state][action] is old + alpha * (reward +                *)
(* discount_factor * Q_b[next_state][max_action] - old); on tails the same *)
(* with the tables exchanged; also when next_state = state or done.        *)
C7_UpdateRule ==
    [][Updating =>
        LET Sel == IF coin' = 1 THEN EnsuredA ELSE EnsuredB
            Oth == IF coin' = 1 THEN EnsuredB ELSE EnsuredA
            New == IF coin' = 1 THEN Q_a' ELSE Q_b'
            old == (IF coin' = 1 THEN Q_a ELSE Q_b)[state][action]
            m   == max_action'
            target == RAdd(FromInt(reward), RMul(discount_factor, Oth[next_state][m]))
        IN  /\ m \in Actions
            /\ \A b \in Actions : RLeq(Sel[next_state][b], Sel[next_state][m])
            /\ \A b \in Actions : b < m => RLess(Sel[next_state][b], Sel[next_state][m])
            /\ New[state][action] = RAdd(old, RMul(alpha, RSub(target, old)))]_vars

(* a terminal self-transition whose bootstrap value is not zero *)
C7_Witness ==
    /\ pc = "advance" /\ done /\ next_state = state
    /\ (IF coin = 1 THEN Q_b ELSE Q_a)[next_state][max_action] # FromInt(0)

(* the episode rules of C8: every episode takes at least one step, goes on *)
(* after a step that is not done and ends right after the first done step; *)
(* a return comes after exactly num_episodes episodes.                     *)
C8_EpisodeRules ==
    /\ \A k \in 1 .. Len(stats) : stats[k][1] >= 1
    /\ pc = "append" => (done /\ i >= 1)
    /\ (pc = "sample" /\ i >= 1) => ~done
    /\ pc = "done" => (i_episode = num_episodes /\ Len(stats) = num_episodes)

(* the positions at which the function has a statement left to run; every *)
(* guard of Next is one of them, so elsewhere the run has stopped          *)
Running == pc \in {"episode", "sample", "step", "update", "advance", "append"}

(* C8: the episode rules hold throughout and, the environment signalling   *)
(* done in every episode, the run stops only by returning.                 *)
C8_EndsOnDoneAndReturns == C8_EpisodeRules /\ (Running \/ pc = "done")

(* C9: no lookup of the loop or the policy misses a key: every state the   *)
(* environment returned has an entry of length num_actions in both tables  *)
(* before it is read (next_state is ensured inside the update step), and   *)
(* an entry that appears is the zero vector.                               *)
C9_Present ==
    /\ pc \notin {"KeyError_policy", "KeyError_update"}
    /\ \A s \in visited :
        \/ pc = "update" /\ s = next_state
        \/ s \in DOMAIN Q_a /\ s \in DOMAIN Q_b
    /\ pc \in {"sample", "step", "update", "advance"} =>
            (state \in DOMAIN Q_a /\ state \in DOMAIN Q_b)
    /\ \A k \in DOMAIN Q_a : DOMAIN Q_a[k] = Actions
    /\ \A k \in DOMAIN Q_b : DOMAIN Q_b[k] = Actions

TerminalOnly(e) ==
    {s \in States :
        /\ s \notin env_reset(e)
        /\ \A p \in States, a \in Actions, n \in 0 .. (MaxSteps - 1) :
            \A tr \in env_step(e, p, a, n) : tr[1] = s => tr[3]}

(* C10: in a run started with empty tables, a state only ever reached by   *)
(* done=True transitions keeps the zero vector in both tables, and the     *)
(* bootstrap term of an update on a transition into it is 0.               *)
C10_TerminalStaysZero ==
    seed = <<EmptyTable, EmptyTable>> =>
        \A s \in TerminalOnly(env) :
            /\ s \in DOMAIN Q_a => Q_a[s] = zeros
            /\ s \in DOMAIN Q_b => Q_b[s] = zeros
            /\ (pc = "advance" /\ next_state = s) =>
                    /\ done
                    /\ RMul(discount_factor,
                            (IF coin = 1 THEN Q_b ELSE Q_a)[s][max_action]) = FromInt(0)

(* a terminal transition taken after something was learned *)
C10_Witness ==
    /\ seed = <<EmptyTable, EmptyTable>> /\ env = "chain"
    /\ pc = "advance" /\ done /\ next_state \in TerminalOnly(env)
    /\ i >= 1
    /\ Q_a[state] # zeros /\ Q_b[next_state] = zeros

====
